---- MODULE Spec2Model ----
(***************************************************************************)
(* Authentication and authorization core of the bid-system backend:        *)
(* token codec (app/core/security.py), identity resolution and role check  *)
(* (app/api/deps.py), the auth routes (app/api/routes/v1/auth.py), the     *)
(* user service (app/services/user.py) and the exception handler that      *)
(* turns domain exceptions into HTTP responses.                            *)
(*                                                                         *)
(* Time is counted in ticks, TicksPerSec ticks to the second, because the  *)
(* JWT "exp" claim is written in whole seconds while datetime.now() and    *)
(* timedelta are finer than that.                                          *)
(***************************************************************************)
EXTENDS Integers, FiniteSets, Sequences, TLC

\* ------------------------------------------------------------ bounds
\* ticks to the second, last tick of the clock, the two configured lifetimes in
\* ticks, users ever registered, tokens ever issued, create_*_token calls
\* recorded, and the largest |expires_delta| in ticks
TicksPerSec == 2
MaxTime == 3
AccessTTL == 2
RefreshTTL == 3
MaxUsers == 1
MaxIssued == 3
MaxMinted == 1
MaxDelta == 2
BcryptMax == 2
MaxCsrf == 2
MaxCalls == 2
MaxDocs == 2
MaxCallers == 2

VARIABLES now, users, nextId, issued, redeemed, minted, last, pend, csrf, regs,
          docs, nextDoc

vars == <<now, users, nextId, issued, redeemed, minted, last, pend, csrf, regs,
         docs, nextDoc>>

\* ------------------------------------------------------------ value sets
Emails == {"a@x", "b@x"}
\* a Python str is the sequence of its code points: "a" is 97, "\u00e9" is 233.
\* Passwords and WrongPassword are within the length bcrypt accepts.
Passwords == {<<97>>}
WrongPassword == <<233>>
\* a password of more bytes than bcrypt reads ("bbb"), as the login form admits
LongPassword == <<98, 98, 98>>
Roles == {"admin", "user"}
UserIds == 1..MaxUsers

\* UserRole enum values, app/db/models/user.py
ADMIN == "admin"
USER == "user"

\* a row that db.get(User, id) does not find
EmptyDigest == [prefix |-> "", salt |-> "", key |-> <<>>]
NoUser == [present |-> FALSE, email |-> "", full_name |-> "",
           hashed_password |-> EmptyDigest, is_active |-> FALSE, role |-> ""]

\* str(uuid) and UUID(string): the string form is a different value from the id.
\* The routes pass str(user.id) and the codec applies str() again, which leaves
\* a string as it is: the model applies Str once, in the codec.
Str(id) == <<id>>
UUID(s) == s[1]

\* ------------------------------------------------------------ token strings
\* A compact JWT string is determined by its claims and its signature (HS256
\* is deterministic), so two strings are equal exactly when these records are.
NoToken == [fmt |-> "absent", sig |-> "none", exp |-> 0, sub |-> <<>>, type |-> "none"]
Garbage == [fmt |-> "garbage", sig |-> "none", exp |-> 0, sub |-> <<>>, type |-> "none"]

\* timegm(expire.utctimetuple()): a datetime becomes whole seconds, rounded down
timegm(t) == t \div TicksPerSec

\* timedelta | None
NoDelta == [given |-> FALSE, ticks |-> 0]
Delta(d) == [given |-> TRUE, ticks |-> d]
Deltas == {NoDelta} \cup {Delta(d) : d \in (0 - MaxDelta)..MaxDelta}

\* bool(expires_delta): None is falsy, and so is timedelta(0)
Truthy(expires_delta) == expires_delta.given /\ expires_delta.ticks # 0

\* jwt.encode(to_encode, SECRET_KEY, algorithm): datetime claims go through timegm
jwt_encode(exp, sub, type) ==
    [fmt |-> "jwt", sig |-> "good", exp |-> timegm(exp), sub |-> sub, type |-> type]

create_access_token(subject, expires_delta, t) ==
    LET expire == IF Truthy(expires_delta)
                  THEN t + expires_delta.ticks
                  ELSE t + AccessTTL
    IN  jwt_encode(expire, Str(subject), "access")

create_refresh_token(subject, expires_delta, t) ==
    LET expire == IF Truthy(expires_delta)
                  THEN t + expires_delta.ticks
                  ELSE t + RefreshTTL
    IN  jwt_encode(expire, Str(subject), "refresh")

\* jwt.decode(token, SECRET_KEY, algorithms=[ALGORITHM]) at time t: the payload,
\* or the exception it raises
PyJWTError == {"DecodeError", "InvalidSignatureError", "ExpiredSignatureError"}

\* faulty variant: the "exp" claim is not compared with the clock
jwt_decode_NoExpiry(token, t) ==
    IF token.fmt # "jwt" THEN [exc |-> "DecodeError", exp |-> 0, sub |-> <<>>, type |-> "none"]
    ELSE IF token.sig # "good"
         THEN [exc |-> "InvalidSignatureError", exp |-> 0, sub |-> <<>>, type |-> "none"]
    ELSE [exc |-> "none", exp |-> token.exp, sub |-> token.sub, type |-> token.type]

jwt_decode(token, t) ==
    IF token.fmt # "jwt" THEN [exc |-> "DecodeError", exp |-> 0, sub |-> <<>>, type |-> "none"]
    ELSE IF token.sig # "good"
         THEN [exc |-> "InvalidSignatureError", exp |-> 0, sub |-> <<>>, type |-> "none"]
    ELSE IF token.exp * TicksPerSec <= t
         THEN [exc |-> "ExpiredSignatureError", exp |-> 0, sub |-> <<>>, type |-> "none"]
    ELSE [exc |-> "none", exp |-> token.exp, sub |-> token.sub, type |-> token.type]

\* faulty variant: except jwt.ExpiredSignatureError instead of jwt.PyJWTError
Caught_ExpiredOnly(exc, classes) == exc = "ExpiredSignatureError"

\* what an "except" clause catches
Caught(exc, classes) == exc \in classes

\* res is "payload", "None" (the function returned None) or "raise"
verify_token(token, t) ==
    LET d == jwt_decode(token, t)
    IN  IF d.exc = "none"
        THEN [res |-> "payload", exc |-> "none", exp |-> d.exp, sub |-> d.sub, type |-> d.type]
        ELSE IF Caught(d.exc, PyJWTError)
        THEN [res |-> "None", exc |-> "none", exp |-> 0, sub |-> <<>>, type |-> "none"]
        ELSE [res |-> "raise", exc |-> d.exc, exp |-> 0, sub |-> <<>>, type |-> "none"]

\* ------------------------------------------------------------ exceptions
\* What a dependency or handler produced: a returned user (exc = "none") with
\* the tokens of the response body, or a raised exception. events lists, in
\* order, the calls a dependency made (oauth2_scheme, verify_token, get_by_id,
\* has_role, close) and how it ended (return or raise).
Returned(user_id, access, refresh) ==
    [exc |-> "none", status_code |-> 200, code |-> "", message |-> "",
     user |-> user_id, access |-> access, refresh |-> refresh, token_type |-> "",
     close |-> 0, reason |-> "", events |-> <<"return">>]

\* schemas/token.py, Token(access_token=..., refresh_token=...)
Token(user_id, access_token, refresh_token) ==
    [Returned(user_id, access_token, refresh_token) EXCEPT !.token_type = "bearer"]

AppException(cls, status_code, code, message) ==
    [exc |-> cls, status_code |-> status_code, code |-> code, message |-> message,
     user |-> 0, access |-> NoToken, refresh |-> NoToken, token_type |-> "",
     close |-> 0, reason |-> "", events |-> <<"raise">>]

NotFoundError(message) == AppException("NotFoundError", 404, "NOT_FOUND", message)
\* faulty variant: a duplicate is answered as a bad request
AlreadyExistsError_BadRequest(message) ==
    AppException("AlreadyExistsError", 400, "BAD_REQUEST", message)

AlreadyExistsError(message) == AppException("AlreadyExistsError", 409, "ALREADY_EXISTS", message)
AuthenticationError(message) ==
    AppException("AuthenticationError", 401, "AUTHENTICATION_ERROR", message)
AuthorizationError(message) ==
    AppException("AuthorizationError", 403, "AUTHORIZATION_ERROR", message)

AppExceptions == {"NotFoundError", "AlreadyExistsError", "AuthenticationError",
                  "AuthorizationError"}

\* r, reached after these calls
After(calls, r) == [r EXCEPT !.events = calls \o r.events]

\* the calls made before r was returned or raised
Calls(r) == SubSeq(r.events, 1, Len(r.events) - 1)

\* an exception that is no AppException and no HTTPException (500, no handler)
Unhandled(cls) == AppException(cls, 500, "", "Internal Server Error")

\* OAuth2PasswordBearer(tokenUrl=...), auto_error: a request without a bearer
\* token is answered by the framework with 401 and WWW-Authenticate: Bearer
oauth2_scheme(token) ==
    IF token.fmt = "absent"
    THEN AppException("HTTPException", 401, "", "Not authenticated")
    ELSE Returned(0, NoToken, NoToken)

\* faulty variant: 403 answers carry the Bearer challenge too
app_exception_handler_Challenge403(exc) ==
    [status |-> exc.status_code,
     www |-> IF exc.status_code \in {401, 403} THEN "Bearer" ELSE "none",
     code |-> exc.code, message |-> exc.message]

\* the HTTP response for what the route produced
app_exception_handler(exc) ==
    [status |-> exc.status_code,
     www |-> IF exc.status_code = 401 THEN "Bearer" ELSE "none",
     code |-> exc.code, message |-> exc.message]

Respond(r) ==
    IF r.exc \in AppExceptions THEN app_exception_handler(r)
    ELSE IF r.exc = "HTTPException"
         THEN [status |-> r.status_code, www |-> "Bearer", code |-> "", message |-> r.message]
    ELSE [status |-> r.status_code, www |-> "none", code |-> r.code, message |-> r.message]

\* ------------------------------------------------------------ users
\* faulty variant: no hierarchy, the role must equal the required one
has_role_Flat(role, required_role) == role = required_role

\* User.has_role
has_role(role, required_role) ==
    IF role = ADMIN THEN TRUE ELSE role = required_role

\* str.encode("utf-8"): one byte for an ASCII code point, two bytes up to U+07FF
RECURSIVE encode(_)
encode(s) ==
    IF s = <<>> THEN <<>>
    ELSE LET c == Head(s)
         IN  (IF c < 128 THEN <<c>> ELSE <<192 + (c \div 64), 128 + (c % 64)>>)
                 \o encode(Tail(s))

\* bcrypt. A digest string "$2b$<cost>$<salt><key>" is the record of its parts;
\* the key is <<p>> for the password bytes p that bcrypt derived it from, and
\* <<>> where the string ends after the salt.
\* bcrypt reads at most BcryptMax bytes of a password: releases before 5.0 drop
\* the rest silently, releases from 5.0 on raise ValueError for a longer one.
\* Both are builds of this program, so hashpw is the set of its outcomes.
Salts == {"s1"}
BcryptOk(value) == [exc |-> "none", value |-> value]
BcryptError == [exc |-> "ValueError", value |-> EmptyDigest]

WellFormed(hashed) == hashed.prefix = "$2b$" /\ hashed.salt \in Salts

hashpw(password, salt) ==
    IF ~WellFormed(salt) THEN {BcryptError}
    ELSE IF Len(password) <= BcryptMax
    THEN {BcryptOk([prefix |-> "$2b$", salt |-> salt.salt, key |-> <<password>>])}
    ELSE {BcryptOk([prefix |-> "$2b$", salt |-> salt.salt,
                    key |-> <<SubSeq(password, 1, BcryptMax)>>]),
          BcryptError}

\* bcrypt.gensalt() drew this salt
gensalt(salt) == [prefix |-> "$2b$", salt |-> salt, key |-> <<>>]

\* bcrypt.checkpw: hashpw with the digest as the salt, compared with the digest
checkpw(password, hashed_password) ==
    {IF h.exc # "none" THEN "ValueError"
     ELSE IF h.value = hashed_password THEN "True" ELSE "False" :
        h \in hashpw(password, hashed_password)}

\* get_password_hash: the outcomes of hashing, for the salt gensalt() drew
get_password_hash(password, salt) == hashpw(encode(password), gensalt(salt))

\* verify_password: "True", "False", or the exception that leaves it
verify_password(plain_password, hashed_password) ==
    checkpw(encode(plain_password), hashed_password)

\* user_repo.get_by_id: the id, or 0 for None
repo_get_by_id(user_id) ==
    IF user_id \in UserIds /\ users[user_id].present THEN user_id ELSE 0

\* user_repo.get_by_email: the id, or 0 for None (email is a unique column)
repo_get_by_email(email) ==
    IF \E i \in UserIds : users[i].present /\ users[i].email = email
    THEN CHOOSE i \in UserIds : users[i].present /\ users[i].email = email
    ELSE 0

\* faulty variant: the row is fetched a second time
UserService_get_by_id_Retried(user_id) ==
    LET user == repo_get_by_id(user_id)
    IN  After(<<"get_by_id">>,
              IF user = 0 THEN NotFoundError("User not found")
              ELSE Returned(user, NoToken, NoToken))

\* UserService.get_by_id
UserService_get_by_id(user_id) ==
    LET user == repo_get_by_id(user_id)
    IN  IF user = 0 THEN NotFoundError("User not found")
        ELSE Returned(user, NoToken, NoToken)

\* faulty variant: the is_active flag is not looked at
UserService_authenticate_ActiveUnchecked(email, password) ==
    LET user == repo_get_by_email(email)
    IN  IF user = 0 THEN {AuthenticationError("Invalid email or password")}
        ELSE {IF v = "ValueError" THEN Unhandled("ValueError")
              ELSE IF v = "False" THEN AuthenticationError("Invalid email or password")
              ELSE Returned(user, NoToken, NoToken) :
                 v \in verify_password(password, users[user].hashed_password)}

\* UserService.authenticate: the outcomes, one for each outcome of verify_password
UserService_authenticate(email, password) ==
    LET user == repo_get_by_email(email)
    IN  IF user = 0 THEN {AuthenticationError("Invalid email or password")}
        ELSE {IF v = "ValueError" THEN Unhandled("ValueError")
              ELSE IF v = "False" THEN AuthenticationError("Invalid email or password")
              ELSE IF ~users[user].is_active
              THEN AuthenticationError("User account is disabled")
              ELSE Returned(user, NoToken, NoToken) :
                 v \in verify_password(password, users[user].hashed_password)}

\* ------------------------------------------------------------ identity resolution
\* payload.get("type") != kind
\* faulty variant: the kind of the token is not looked at
TypeIsNot_Unchecked(payload, kind) == FALSE

TypeIsNot(payload, kind) == payload.type # kind

\* get_current_user (after oauth2_scheme produced the token)
get_current_user(token, t) ==
    LET payload == verify_token(token, t)
    IN  After(<<"verify_token">>,
        IF payload.res = "raise" THEN Unhandled(payload.exc)
        ELSE IF payload.res = "None"
        THEN AuthenticationError("Invalid or expired token")
        ELSE IF TypeIsNot(payload, "access")
        THEN AuthenticationError("Invalid token type")
        ELSE IF payload.sub = <<>>
        THEN AuthenticationError("Invalid token payload")
        ELSE After(<<"get_by_id">>,
             LET user == UserService_get_by_id(UUID(payload.sub))
             IN  IF user.exc # "none" THEN user
                 ELSE IF ~users[user.user].is_active
                 THEN AuthenticationError("User account is disabled")
                 ELSE user))

\* get_current_user up to "await user_service.get_by_id": the user id of the
\* token, or the exception raised before it
get_current_user_token(token, t) ==
    LET payload == verify_token(token, t)
    IN  IF payload.res = "raise" THEN Unhandled(payload.exc)
        ELSE IF payload.res = "None"
        THEN AuthenticationError("Invalid or expired token")
        ELSE IF TypeIsNot(payload, "access")
        THEN AuthenticationError("Invalid token type")
        ELSE IF payload.sub = <<>>
        THEN AuthenticationError("Invalid token payload")
        ELSE Returned(UUID(payload.sub), NoToken, NoToken)

\* faulty variant: the is_active flag of the row is not looked at
get_current_user_lookup_ActiveUnchecked(user_id) == UserService_get_by_id(user_id)

\* get_current_user from "await user_service.get_by_id" on, in the state the
\* await returns in
get_current_user_lookup(user_id) ==
    LET user == UserService_get_by_id(user_id)
    IN  IF user.exc # "none" THEN user
        ELSE IF ~users[user.user].is_active
        THEN AuthenticationError("User account is disabled")
        ELSE user

\* Depends(oauth2_scheme) then get_current_user
CurrentUser(token, t) ==
    LET bearer == oauth2_scheme(token)
    IN  After(<<"oauth2_scheme">>,
              IF bearer.exc # "none" THEN bearer ELSE get_current_user(token, t))

RoleMessage(required_role) ==
    IF required_role = ADMIN THEN "Role 'admin' required for this action"
    ELSE "Role 'user' required for this action"

\* RoleChecker.__call__, with its Depends(get_current_user)
RoleChecker(required_role, token, t) ==
    LET user == CurrentUser(token, t)
    IN  IF user.exc # "none" THEN user
        ELSE After(Calls(user) \o <<"has_role">>,
                   IF ~has_role(users[user.user].role, required_role)
                   THEN AuthorizationError(RoleMessage(required_role))
                   ELSE Returned(user.user, NoToken, NoToken))

\* variant: a refresh route that rejects the refresh tokens already used
refresh_token_OneTime(token, t) ==
    LET payload == verify_token(token, t)
    IN  After(<<"verify_token">>,
        IF payload.res = "raise" THEN Unhandled(payload.exc)
        ELSE IF payload.res = "None" \/ token \in redeemed
        THEN AuthenticationError("Invalid or expired refresh token")
        ELSE IF TypeIsNot(payload, "refresh")
        THEN AuthenticationError("Invalid token type")
        ELSE IF payload.sub = <<>>
        THEN AuthenticationError("Invalid token payload")
        ELSE After(<<"get_by_id">>,
             LET user == UserService_get_by_id(UUID(payload.sub))
             IN  IF user.exc # "none" THEN user
                 ELSE IF ~users[user.user].is_active
                 THEN AuthenticationError("User account is disabled")
                 ELSE Token(user.user,
                            create_access_token(user.user, NoDelta, t),
                            create_refresh_token(user.user, NoDelta, t))))

\* faulty variant: the refresh route does not look at is_active
refresh_token_ActiveUnchecked(token, t) ==
    LET payload == verify_token(token, t)
    IN  After(<<"verify_token">>,
        IF payload.res = "raise" THEN Unhandled(payload.exc)
        ELSE IF payload.res = "None"
        THEN AuthenticationError("Invalid or expired refresh token")
        ELSE IF TypeIsNot(payload, "refresh")
        THEN AuthenticationError("Invalid token type")
        ELSE IF payload.sub = <<>>
        THEN AuthenticationError("Invalid token payload")
        ELSE After(<<"get_by_id">>,
             LET user == UserService_get_by_id(UUID(payload.sub))
             IN  IF user.exc # "none" THEN user
                 ELSE Token(user.user,
                            create_access_token(user.user, NoDelta, t),
                            create_refresh_token(user.user, NoDelta, t))))

\* POST /auth/refresh
refresh_token(token, t) ==
    LET payload == verify_token(token, t)
    IN  After(<<"verify_token">>,
        IF payload.res = "raise" THEN Unhandled(payload.exc)
        ELSE IF payload.res = "None"
        THEN AuthenticationError("Invalid or expired refresh token")
        ELSE IF TypeIsNot(payload, "refresh")
        THEN AuthenticationError("Invalid token type")
        ELSE IF payload.sub = <<>>
        THEN AuthenticationError("Invalid token payload")
        ELSE After(<<"get_by_id">>,
             LET user == UserService_get_by_id(UUID(payload.sub))
             IN  IF user.exc # "none" THEN user
                 ELSE IF ~users[user.user].is_active
                 THEN AuthenticationError("User account is disabled")
                 ELSE Token(user.user,
                            create_access_token(user.user, NoDelta, t),
                            create_refresh_token(user.user, NoDelta, t))))

\* POST /auth/login: the outcomes, one for each outcome of authenticate
login(email, password, t) ==
    {IF user.exc # "none" THEN user
     ELSE Token(user.user,
                create_access_token(user.user, NoDelta, t),
                create_refresh_token(user.user, NoDelta, t)) :
        user \in UserService_authenticate(email, password)}

\* ------------------------------------------------------------ WebSocket
EmptyString == [fmt |-> "empty", sig |-> "none", exp |-> 0, sub |-> <<>>, type |-> "none"]

\* faulty variant: only None is falsy
Falsy_NoneOnly(s) == s.fmt = "absent"

\* Python truthiness of "str | None": None and "" are falsy
Falsy(s) == s.fmt \in {"absent", "empty"}

\* faulty variant: the cookie is preferred to the query parameter
Or_SecondFirst(a, b) == IF Falsy(b) THEN a ELSE b

\* Python "a or b"
Or(a, b) == IF Falsy(a) THEN b ELSE a

\* websocket.close(code=4001, reason=...) followed by raise AuthenticationError
CloseAndRaise(message) ==
    [AuthenticationError(message) EXCEPT !.close = 4001, !.reason = message,
                                         !.events = <<"close", "raise">>]

\* get_current_user_ws(websocket, token, access_token)
get_current_user_ws(token, access_token, t) ==
    LET auth_token == Or(token, access_token)
        payload == verify_token(auth_token, t)
    IN  IF Falsy(auth_token) THEN CloseAndRaise("Missing authentication token")
        ELSE After(<<"verify_token">>,
             IF payload.res = "raise" THEN Unhandled(payload.exc)
             ELSE IF payload.res = "None" THEN CloseAndRaise("Invalid or expired token")
             ELSE IF TypeIsNot(payload, "access") THEN CloseAndRaise("Invalid token type")
             ELSE IF payload.sub = <<>> THEN CloseAndRaise("Invalid token payload")
             ELSE After(<<"get_by_id">>,
                  LET user == UserService_get_by_id(UUID(payload.sub))
                  IN  IF user.exc # "none" THEN user
                      ELSE IF ~users[user.user].is_active
                      THEN CloseAndRaise("User account is disabled")
                      ELSE user))

\* ------------------------------------------------------------ CSRF middleware
\* "str | None" as request.cookies.get and request.headers.get return it: None,
\* or a string, the sequence of its code points
NoneStr == [some |-> FALSE, str |-> <<>>]
Some(str) == [some |-> TRUE, str |-> str]

\* Python "not x" for a "str | None"
Not(x) == ~x.some \/ x.str = <<>>

PROTECTED_METHODS == {"POST", "PUT", "PATCH", "DELETE"}

\* EXEMPT_PATHS, a path being the sequence of its characters: "l" stands for
\* "/api/v1/auth/login" and "d" for "/docs"
EXEMPT_PATHS == {<<"l">>, <<"d">>}

\* str.startswith
startswith(str, prefix) ==
    Len(prefix) <= Len(str) /\ SubSeq(str, 1, Len(prefix)) = prefix

\* CSRFMiddleware._is_exempt. No route of the application carries the tag
\* "csrf-exempt", so the test of the route's tags is False.
is_exempt(path) ==
    \/ path \in EXEMPT_PATHS
    \/ \E exempt \in EXEMPT_PATHS : startswith(path, exempt)

\* secrets.compare_digest(a, b) for two str: TypeError unless both are ASCII
IsAscii(str) == \A i \in 1..Len(str) : str[i] < 128
compare_digest(a, b) ==
    IF ~IsAscii(a) \/ ~IsAscii(b) THEN "TypeError"
    ELSE IF a = b THEN "True" ELSE "False"

\* CSRFMiddleware._generate_token: the k-th token that secrets.token_urlsafe
\* returns. It is ASCII and differs from every string that existed before.
generate_token(k) == Some(<<48 + k>>)

\* what dispatch returns: whether call_next ran, the status, the detail of a
\* 403, the exception that left dispatch, and the cookie it set
Dispatched(handler, status, detail, exc, set_cookie) ==
    [handler |-> handler, status |-> status, detail |-> detail, exc |-> exc,
     set_cookie |-> set_cookie]

\* CSRFMiddleware.dispatch for a request with this method, path, csrf_token
\* cookie and X-CSRF-Token header; generated is what _generate_token returns
dispatch(method, path, cookie, header_token, generated) ==
    LET csrf_token == IF Not(cookie) THEN generated ELSE cookie
        proceed == Dispatched(TRUE, 200, "", "none",
                              IF Not(cookie) THEN csrf_token ELSE NoneStr)
    IN  IF is_exempt(path) THEN Dispatched(TRUE, 200, "", "none", NoneStr)
        ELSE IF method \notin PROTECTED_METHODS THEN proceed
        ELSE IF Not(header_token)
        THEN Dispatched(FALSE, 403, "CSRF token missing", "none", NoneStr)
        ELSE LET equal == compare_digest(csrf_token.str, header_token.str)
             IN  IF equal = "TypeError"
                 THEN Dispatched(FALSE, 500, "", "TypeError", NoneStr)
                 ELSE IF equal = "False"
                 THEN Dispatched(FALSE, 403, "CSRF token invalid", "none", NoneStr)
                 ELSE proceed

\* ------------------------------------------------------------ bid documents
\* rows of bid_documents, with the stored file of each: whether the file is
\* on disk, whether content_text and analysis_result are set
DocIds == 1..MaxDocs
\* ids of the users that call the endpoints
CallerIds == 1..MaxCallers
NoDoc == [present |-> FALSE, user_id |-> 0, file |-> FALSE, content_text |-> FALSE,
          analysis_status |-> "", analysis_result |-> FALSE]

\* BidDocumentRepository.create, after upload_file wrote the file:
\* analysis_status takes the column default, content_text and analysis_result
\* are NULL
BidDocumentRepository_create(rows, id, user_id) ==
    [rows EXCEPT ![id] = [present |-> TRUE, user_id |-> user_id, file |-> TRUE,
                          content_text |-> FALSE, analysis_status |-> "pending",
                          analysis_result |-> FALSE]]

\* BidDocumentRepository.get_by_id: the id, or 0 for None
BidDocumentRepository_get_by_id(rows, doc_id, user_id) ==
    IF doc_id \in DocIds /\ rows[doc_id].present /\ rows[doc_id].user_id = user_id
    THEN doc_id ELSE 0

\* BidDocumentRepository.get_list_by_user, as the set of the ids it returns
BidDocumentRepository_get_list_by_user(rows, user_id) ==
    {d \in DocIds : rows[d].present /\ rows[d].user_id = user_id}

BidDocumentRepository_update_content_text(rows, doc) ==
    [rows EXCEPT ![doc].content_text = TRUE]

BidDocumentRepository_update_analysis(rows, doc) ==
    [rows EXCEPT ![doc].analysis_result = TRUE, ![doc].analysis_status = "completed"]

BidDocumentRepository_update_status(rows, doc, status) ==
    [rows EXCEPT ![doc].analysis_status = status]

\* BidDocumentService.delete_file: the file is unlinked and the row deleted
BidDocumentService_delete_file(rows, doc) == [rows EXCEPT ![doc] = NoDoc]

\* BidDocumentService.extract_text_from_file: content_text is set if any text
\* came out of the file
BidDocumentService_extract_text_from_file(rows, doc, content) ==
    IF content THEN BidDocumentRepository_update_content_text(rows, doc) ELSE rows

\* what an endpoint function answers, and the rows it leaves
BidAnswer(status, exc, detail, rows) ==
    [status |-> status, exc |-> exc, detail |-> detail, docs |-> rows, listed |-> {},
     analyzing |-> FALSE]

\* upload_bid_document
upload_bid_document(rows, id, current_user) ==
    BidAnswer(201, "none", "", BidDocumentRepository_create(rows, id, current_user))

\* get_bid_document
get_bid_document(rows, current_user, doc_id) ==
    LET doc == BidDocumentRepository_get_by_id(rows, doc_id, current_user)
    IN  IF doc = 0 THEN BidAnswer(404, "HTTPException", "Document not found", rows)
        ELSE BidAnswer(200, "none", "", rows)

\* list_bid_documents
list_bid_documents(rows, current_user) ==
    [BidAnswer(200, "none", "", rows)
        EXCEPT !.listed = BidDocumentRepository_get_list_by_user(rows, current_user)]

\* delete_bid_document
delete_bid_document(rows, current_user, doc_id) ==
    LET doc == BidDocumentRepository_get_by_id(rows, doc_id, current_user)
    IN  IF doc = 0 THEN BidAnswer(404, "HTTPException", "Document not found", rows)
        ELSE BidAnswer(204, "none", "", BidDocumentService_delete_file(rows, doc))

\* "await bid_analysis_agent.run(...)": the agent returns its run result (an
\* object with the text in .output, as app/agents/assistant.py reads it), or
\* raises, or the task is cancelled while it waits
AgentRuns == {"AgentRunResult", "Exception", "CancelledError"}

\* json.loads: a dict for a str of JSON, JSONDecodeError for another str,
\* TypeError for an object that is no str, bytes or bytearray
json_loads(s) ==
    IF s = "json" THEN "dict" ELSE IF s = "str" THEN "JSONDecodeError" ELSE "TypeError"

\* analyze_bid_document. content: whether text comes out of the file;
\* OPENAI_API_KEY: whether settings holds a key; run: how the agent's run ends.
\* "except Exception" does not catch asyncio.CancelledError.
analyze_bid_document(rows, current_user, doc_id, content, OPENAI_API_KEY, run) ==
    LET doc == BidDocumentRepository_get_by_id(rows, doc_id, current_user)
    IN  IF doc = 0 THEN BidAnswer(404, "HTTPException", "Document not found", rows)
        ELSE
        LET extracted == IF ~rows[doc].content_text
                         THEN BidDocumentService_extract_text_from_file(rows, doc, content)
                         ELSE rows
            analyzing == BidDocumentRepository_update_status(extracted, doc, "analyzing")
            failed == [BidAnswer(500, "HTTPException", "Analysis failed",
                                 BidDocumentRepository_update_status(analyzing, doc, "failed"))
                          EXCEPT !.analyzing = TRUE]
        IN  IF ~OPENAI_API_KEY
            THEN BidAnswer(500, "HTTPException", "OPENAI_API_KEY not configured", extracted)
            ELSE IF run = "CancelledError"
            THEN [BidAnswer(0, "CancelledError", "", analyzing) EXCEPT !.analyzing = TRUE]
            ELSE IF run = "Exception" THEN failed
            ELSE IF json_loads(run) # "dict" THEN failed
            ELSE [BidAnswer(200, "none", "",
                            BidDocumentRepository_update_analysis(analyzing, doc))
                     EXCEPT !.analyzing = TRUE]

\* The routes declare "current_user: User = Depends(CurrentUser)" and
\* "db: AsyncSession = Depends(DBSession)", where CurrentUser and DBSession
\* are the aliases Annotated[User, Depends(get_current_user)] and
\* Annotated[AsyncSession, Depends(get_db_session)]. The dependency is then
\* the alias itself, a callable of signature (*args, **kwargs): FastAPI reads
\* args and kwargs as required query parameters, answers 422 when one is
\* missing, and otherwise calls the alias, that is User(args=..., kwargs=...),
\* which raises TypeError. get_current_user is not called.
Depends_CurrentUser(args, kwargs) ==
    IF ~args.some \/ ~kwargs.some
    THEN [exc |-> "RequestValidationError", status |-> 422, detail |-> "Field required"]
    ELSE [exc |-> "TypeError", status |-> 500, detail |-> "Internal Server Error"]

\* ------------------------------------------------------------ PATCH /users/me
\* Python None in a column or a field
None == "None"

\* A UserUpdate: the value of each field, and the fields the request body set
\* (model_fields_set). A field that is not set holds its default, None.
NoBody == [set |-> {}, email |-> None, full_name |-> None, password |-> <<>>,
           is_active |-> FALSE, role |-> None]

\* user_in.model_dump(exclude_unset=True)
model_dump(user_in) == [f \in user_in.set |-> user_in[f]]

\* "password" in update_data: it is popped and its hash stored under
\* "hashed_password"
WithHash(update_data, hashed_password) ==
    [f \in (DOMAIN update_data \ {"password"}) \cup {"hashed_password"} |->
        IF f = "hashed_password" THEN hashed_password ELSE update_data[f]]

\* db.flush(): the UPDATE fails on a NULL in a NOT NULL column (email,
\* is_active, role) and on an email that another row has
IntegrityError(rows, user_id) ==
    \/ rows[user_id].email = None
    \/ rows[user_id].role = None
    \/ \E j \in DOMAIN rows \ {user_id} :
          rows[j].present /\ rows[j].email = rows[user_id].email

\* setattr(db_user, field, value) for each field of update_data
SetAttrs(rows, user_id, update_data) ==
    [rows EXCEPT ![user_id] =
        [f \in DOMAIN rows[user_id] |->
            IF f \in DOMAIN update_data THEN update_data[f] ELSE rows[user_id][f]]]

\* user_in.role = None: assignment keeps the field among the set ones
AssignRoleNone(user_in) == [user_in EXCEPT !.role = None, !.set = @ \cup {"role"}]

\* variant: the role is taken out of the request instead
AssignRoleNone_Unset(user_in) == [user_in EXCEPT !.role = None, !.set = @ \ {"role"}]

\* UserService.update followed by user_repo.update, for an existing user: the
\* outcomes, each the answer and the rows it leaves
UserService_update_rows(user_id, user_in, salt) ==
    LET update_data == model_dump(user_in)
        hashes == IF "password" \in DOMAIN update_data
                  THEN get_password_hash(update_data["password"], salt)
                  ELSE {BcryptOk(EmptyDigest)}
    IN  {IF h.exc # "none" THEN [r |-> Unhandled(h.exc), users |-> users]
         ELSE LET data == IF "password" \in DOMAIN update_data
                          THEN WithHash(update_data, h.value) ELSE update_data
                  rows == SetAttrs(users, user_id, data)
              IN  IF IntegrityError(rows, user_id)
                  THEN [r |-> Unhandled("IntegrityError"), users |-> users]
                  ELSE [r |-> Returned(user_id, NoToken, NoToken), users |-> rows] :
            h \in hashes}

\* update_current_user (PATCH /users/me) for the resolved current_user
update_current_user(current_user, user_in, salt) ==
    UserService_update_rows(current_user,
        IF user_in.role # None /\ ~has_role(users[current_user].role, ADMIN)
        THEN AssignRoleNone(user_in) ELSE user_in,
        salt)

\* ------------------------------------------------------------ state machine
NoPayload == [exp |-> 0, sub |-> <<>>, type |-> "none"]

\* the request answered by the step just taken, and its answer; prior and reused
\* say whether a refresh had succeeded before this request, and with this token
Idle == [op |-> "none", token |-> NoToken, cookie |-> NoToken, required |-> "",
         email |-> "", delta |-> NoDelta, exc |-> "none",
         status |-> 0, www |-> "none", code |-> "", message |-> "",
         access |-> NoToken, refresh |-> NoToken, user |-> 0,
         close |-> 0, reason |-> "", res |-> "", payload |-> NoPayload,
         prior |-> FALSE, reused |-> FALSE,
         password |-> <<>>, token_type |-> "", events |-> <<>>,
         awaited |-> FALSE, seen |-> FALSE,
         digest |-> EmptyDigest, plain |-> <<>>, round |-> FALSE, body |-> NoBody,
         method |-> "", path |-> <<>>, csrf_cookie |-> NoneStr, csrf_header |-> NoneStr,
         handler |-> FALSE, set_cookie |-> NoneStr,
         route |-> "", caller |-> 0, doc_id |-> 0, listed |-> {}, args |-> NoneStr,
         kwargs |-> NoneStr, analyzing |-> FALSE]

\* the request that is waiting at an await, if any: its token, the user id
\* taken from the token, and whether that user was active when it began
NoRequest == [op |-> "none", token |-> NoToken, user_id |-> 0, seen |-> FALSE]

\* the answer to an HTTP request
Answer(op, token, r) ==
    LET resp == Respond(r)
    IN  [Idle EXCEPT !.op = op, !.token = token, !.exc = r.exc,
                     !.status = resp.status, !.www = resp.www, !.code = resp.code,
                     !.message = resp.message, !.access = r.access,
                     !.refresh = r.refresh, !.user = r.user,
                     !.close = r.close, !.reason = r.reason,
                     !.token_type = r.token_type, !.events = r.events]

\* calls of UserService.register in flight at the same time, each between its
\* "await user_repo.get_by_email" and its "await user_repo.create"
RegCalls == 1..MaxCalls
NoCall == [pc |-> "none", email |-> "", hashed_password |-> EmptyDigest, role |-> ""]

\* tokens a client can send: the ones the server handed out, and strings the
\* server never signed
ForgedTokens ==
    {[fmt |-> "jwt", sig |-> "bad", exp |-> MaxTime + 1, sub |-> Str(1), type |-> "access"]}
Presentable == issued \cup ForgedTokens \cup {Garbage}

Init ==
    /\ now = 0
    /\ users = [i \in UserIds |-> NoUser]
    /\ nextId = 1
    /\ issued = {}
    /\ redeemed = {}
    /\ minted = {}
    /\ last = Idle
    /\ pend = NoRequest
    /\ csrf = [jar |-> NoneStr, n |-> 0]
    /\ regs = [c \in RegCalls |-> NoCall]
    /\ docs = [d \in DocIds |-> NoDoc]
    /\ nextDoc = 1

Tick ==
    /\ now < MaxTime
    /\ now' = now + 1
    /\ last' = Idle
    /\ UNCHANGED <<users, nextId, issued, redeemed, minted, pend, csrf, regs, docs, nextDoc>>

\* UserService.register (POST /auth/register)
Register(email, password, role, salt) ==
    /\ IF repo_get_by_email(email) # 0
       THEN /\ last' = [Answer("register", NoToken, AlreadyExistsError("Email already registered"))
                            EXCEPT !.email = email]
            /\ UNCHANGED <<users, nextId>>
       ELSE \E hashed_password \in get_password_hash(password, salt) :
            IF hashed_password.exc # "none"
            THEN /\ last' = [Answer("register", NoToken, Unhandled(hashed_password.exc))
                                 EXCEPT !.email = email]
                 /\ UNCHANGED <<users, nextId>>
            ELSE /\ nextId <= MaxUsers
                 /\ users' = [users EXCEPT ![nextId] =
                                 [present |-> TRUE, email |-> email, full_name |-> "",
                                  hashed_password |-> hashed_password.value,
                                  is_active |-> TRUE, role |-> role]]
                 /\ nextId' = nextId + 1
                 /\ last' = [Answer("register", NoToken, Returned(nextId, NoToken, NoToken))
                                 EXCEPT !.email = email, !.status = 201]
    /\ UNCHANGED <<now, issued, redeemed, minted, pend, csrf, regs, docs, nextDoc>>

\* UserService.register up to the end of its first await: the email is looked
\* up and, if it is free, the password is hashed
BeginRegister(c, email, password, role, salt) ==
    /\ regs[c].pc = "none"
    /\ IF repo_get_by_email(email) # 0
       THEN /\ last' = [Answer("register", NoToken, AlreadyExistsError("Email already registered"))
                            EXCEPT !.email = email]
            /\ regs' = regs
       ELSE \E hashed_password \in get_password_hash(password, salt) :
            IF hashed_password.exc # "none"
            THEN /\ last' = [Answer("register", NoToken, Unhandled(hashed_password.exc))
                                 EXCEPT !.email = email]
                 /\ regs' = regs
            ELSE /\ last' = Idle
                 /\ regs' = [regs EXCEPT ![c] = [pc |-> "create", email |-> email,
                                                 hashed_password |-> hashed_password.value,
                                                 role |-> role]]
    /\ UNCHANGED <<now, users, nextId, issued, redeemed, minted, pend, csrf, docs, nextDoc>>

\* user_repo.create: db.add and db.flush. users.email is unique, so the flush
\* of a row whose email another row holds raises IntegrityError, which
\* register does not catch.
FinishRegister(c) ==
    LET call == regs[c]
    IN  /\ call.pc = "create"
        /\ regs' = [regs EXCEPT ![c] = NoCall]
        /\ IF repo_get_by_email(call.email) # 0
           THEN /\ last' = [Answer("register", NoToken, Unhandled("IntegrityError"))
                                EXCEPT !.email = call.email]
                /\ UNCHANGED <<users, nextId>>
           ELSE /\ nextId <= MaxUsers
                /\ users' = [users EXCEPT ![nextId] =
                                [present |-> TRUE, email |-> call.email, full_name |-> "",
                                 hashed_password |-> call.hashed_password,
                                 is_active |-> TRUE, role |-> call.role]]
                /\ nextId' = nextId + 1
                /\ last' = [Answer("register", NoToken, Returned(nextId, NoToken, NoToken))
                                EXCEPT !.email = call.email, !.status = 201]
        /\ UNCHANGED <<now, issued, redeemed, minted, pend, csrf, docs, nextDoc>>

\* UserService.update with update_data (the fields that were set)
UserService_update(user_id, update_data) ==
    [users EXCEPT ![user_id] =
        [f \in DOMAIN users[user_id] |->
            IF f \in DOMAIN update_data THEN update_data[f] ELSE users[user_id][f]]]

UpdateUser(user_id, update_data) ==
    /\ repo_get_by_id(user_id) # 0
    /\ users' = UserService_update(user_id, update_data)
    /\ last' = Idle
    /\ UNCHANGED <<now, nextId, issued, redeemed, minted, pend, csrf, regs, docs, nextDoc>>

\* UserService.delete
DeleteUser(user_id) ==
    /\ repo_get_by_id(user_id) # 0
    /\ users' = [users EXCEPT ![user_id] = NoUser]
    /\ last' = Idle
    /\ UNCHANGED <<now, nextId, issued, redeemed, minted, pend, csrf, regs, docs, nextDoc>>

Issue(r) == IF r.exc = "none" THEN {r.access, r.refresh} ELSE {}

\* variant: an account is deactivated by a failed login with its email
Login_LockoutOnFailure(email, password) ==
    \E r \in login(email, password, now) :
        /\ Cardinality(issued \cup Issue(r)) <= MaxIssued
        /\ issued' = issued \cup Issue(r)
        /\ last' = [Answer("login", NoToken, r) EXCEPT !.email = email, !.password = password]
        /\ users' = IF r.exc # "none" /\ repo_get_by_email(email) # 0
                     THEN [users EXCEPT ![repo_get_by_email(email)].is_active = FALSE]
                     ELSE users
        /\ UNCHANGED <<now, nextId, redeemed, minted, pend, csrf, regs, docs, nextDoc>>

\* POST /auth/login
Login(email, password) ==
    \E r \in login(email, password, now) :
        /\ Cardinality(issued \cup Issue(r)) <= MaxIssued
        /\ issued' = issued \cup Issue(r)
        /\ last' = [Answer("login", NoToken, r) EXCEPT !.email = email, !.password = password]
        /\ UNCHANGED <<now, users, nextId, redeemed, minted, pend, csrf, regs, docs, nextDoc>>

\* POST /auth/refresh
Refresh(token) ==
    LET r == refresh_token(token, now)
    IN  /\ Cardinality(issued \cup Issue(r)) <= MaxIssued
        /\ issued' = issued \cup Issue(r)
        /\ redeemed' = IF r.exc = "none" THEN redeemed \cup {token} ELSE redeemed
        /\ last' = [Answer("refresh", token, r)
                        EXCEPT !.prior = (redeemed # {}), !.reused = (token \in redeemed)]
        /\ UNCHANGED <<now, users, nextId, minted, pend, csrf, regs, docs, nextDoc>>

\* a route guarded by Depends(get_current_user): GET /users/me, GET /auth/me
GetMe(token) ==
    /\ last' = Answer("get_current_user", token, CurrentUser(token, now))
    /\ UNCHANGED <<now, users, nextId, issued, redeemed, minted, pend, csrf, regs, docs, nextDoc>>

\* the same route, begun: everything up to the await of the user lookup
BeginGetMe(token) ==
    LET bearer == oauth2_scheme(token)
        r == IF bearer.exc # "none" THEN bearer ELSE get_current_user_token(token, now)
    IN  /\ pend = NoRequest
        /\ IF r.exc # "none"
           THEN /\ last' = Answer("get_current_user", token, r)
                /\ pend' = pend
           ELSE /\ last' = Idle
                /\ pend' = [op |-> "get_current_user", token |-> token, user_id |-> r.user,
                            seen |-> (r.user \in UserIds /\ users[r.user].present
                                                         /\ users[r.user].is_active)]
        /\ UNCHANGED <<now, users, nextId, issued, redeemed, minted, csrf, regs, docs, nextDoc>>

\* the await returns: the row is read and the request is answered
FinishGetMe ==
    /\ pend.op = "get_current_user"
    /\ last' = [Answer("get_current_user", pend.token, get_current_user_lookup(pend.user_id))
                    EXCEPT !.awaited = TRUE, !.seen = pend.seen]
    /\ pend' = NoRequest
    /\ UNCHANGED <<now, users, nextId, issued, redeemed, minted, csrf, regs, docs, nextDoc>>

\* PATCH /users/me
UpdateMe(token, user_in, salt) ==
    LET current_user == CurrentUser(token, now)
    IN  /\ IF current_user.exc # "none"
           THEN /\ last' = [Answer("update_current_user", token, current_user)
                                EXCEPT !.body = user_in]
                /\ users' = users
           ELSE \E o \in update_current_user(current_user.user, user_in, salt) :
                    /\ last' = [Answer("update_current_user", token, o.r)
                                    EXCEPT !.body = user_in]
                    /\ users' = o.users
        /\ UNCHANGED <<now, nextId, issued, redeemed, minted, pend, csrf, regs, docs, nextDoc>>

\* a route guarded by Depends(RoleChecker(required_role))
RoleRoute(required_role, token) ==
    /\ last' = [Answer("RoleChecker", token, RoleChecker(required_role, token, now))
                    EXCEPT !.required = required_role]
    /\ UNCHANGED <<now, users, nextId, issued, redeemed, minted, pend, csrf, regs, docs, nextDoc>>

\* a WebSocket handshake guarded by Depends(get_current_user_ws)
WsConnect(token, access_token) ==
    /\ last' = [Answer("get_current_user_ws", token,
                       get_current_user_ws(token, access_token, now))
                    EXCEPT !.cookie = access_token]
    /\ UNCHANGED <<now, users, nextId, issued, redeemed, minted, pend, csrf, regs, docs, nextDoc>>

\* Token lifecycle: users of role USER are registered, deactivated, reactivated
\* and deleted while tokens are issued, age and are presented.
ActiveData == [{"is_active"} -> BOOLEAN]
RoleData == [{"role"} -> Roles]

Next ==
    \/ Tick
    \/ \E e \in Emails, p \in Passwords, s \in Salts : Register(e, p, USER, s)
    \/ \E i \in UserIds, d \in ActiveData : UpdateUser(i, d)
    \/ \E i \in UserIds : DeleteUser(i)
    \/ \E e \in Emails, p \in Passwords \cup {WrongPassword} : Login(e, p)
    \/ \E tok \in Presentable : Refresh(tok)
    \/ \E tok \in Presentable \cup {NoToken} : GetMe(tok)
    \/ \E tok \in Presentable \cup {NoToken, EmptyString} : WsConnect(tok, NoToken)
    \/ \E tok \in {NoToken, EmptyString, Garbage}, c \in issued : WsConnect(tok, c)
    \/ \E tok \in issued : WsConnect(tok, Garbage)

Spec == Init /\ [][Next]_vars

\* Roles: users of either role are registered and changed, they log in, and
\* present their tokens to routes that require a role. Time stands still.
NextRole ==
    \/ \E e \in Emails, p \in Passwords, r \in Roles, s \in Salts : Register(e, p, r, s)
    \/ \E i \in UserIds, d \in ActiveData \cup RoleData : UpdateUser(i, d)
    \/ \E i \in UserIds : DeleteUser(i)
    \/ \E e \in Emails, p \in Passwords : Login(e, p)
    \/ \E tok \in Presentable \cup {NoToken} : GetMe(tok)
    \/ \E r \in Roles, tok \in Presentable \cup {NoToken} : RoleRoute(r, tok)

SpecRole == Init /\ [][NextRole]_vars

\* The authentication core among user management: every operation that
\* resolves an identity or hands out tokens, for users of either role that are
\* registered, changed and deleted. Time stands still.
NextCore ==
    \/ \E e \in Emails, p \in Passwords, r \in Roles, s \in Salts : Register(e, p, r, s)
    \/ \E i \in UserIds, d \in ActiveData \cup RoleData : UpdateUser(i, d)
    \/ \E i \in UserIds : DeleteUser(i)
    \/ \E e \in Emails, p \in Passwords \cup {WrongPassword} : Login(e, p)
    \/ \E tok \in Presentable : Refresh(tok)
    \/ \E tok \in Presentable \cup {NoToken} : GetMe(tok)
    \/ \E r \in Roles, tok \in Presentable \cup {NoToken} : RoleRoute(r, tok)
    \/ \E tok \in Presentable \cup {NoToken} : WsConnect(tok, NoToken)

SpecCore == Init /\ [][NextCore]_vars

\* Requests among updates: the users are registered, deactivated, reactivated
\* and deleted, and the clock advances, also while a request waits for its
\* user lookup.
NextAwait ==
    \/ Tick
    \/ \E e \in Emails, p \in Passwords, s \in Salts : Register(e, p, USER, s)
    \/ \E i \in UserIds, d \in ActiveData : UpdateUser(i, d)
    \/ \E i \in UserIds : DeleteUser(i)
    \/ \E e \in Emails, p \in Passwords : Login(e, p)
    \/ \E tok \in Presentable \cup {NoToken} : BeginGetMe(tok)
    \/ FinishGetMe

SpecAwait == Init /\ [][NextAwait]_vars

\* Profiles: users of either role register, log in and change their own
\* profile. A request body sets any of the fields of UserUpdate.
Bodies ==
    {[set |-> F,
      email |-> IF "email" \in F THEN "b@x" ELSE None,
      full_name |-> IF "full_name" \in F THEN "n" ELSE None,
      password |-> IF "password" \in F THEN WrongPassword ELSE <<>>,
      is_active |-> FALSE,
      role |-> IF "role" \in F THEN r ELSE None] :
        F \in SUBSET {"email", "full_name", "password", "is_active", "role"}, r \in Roles}

NextProfile ==
    \/ \E e \in Emails, p \in Passwords, r \in Roles, s \in Salts : Register(e, p, r, s)
    \/ \E e \in Emails, p \in Passwords : Login(e, p)
    \/ \E tok \in issued \cup {NoToken}, b \in Bodies, s \in Salts : UpdateMe(tok, b, s)

SpecProfile == Init /\ [][NextProfile]_vars

\* the endpoint functions of bid_documents.py, called with current_user
\* resolved to a user and db to a session
BidCall(op, caller, doc_id, r) ==
    /\ docs' = r.docs
    /\ last' = [Idle EXCEPT !.op = op, !.caller = caller, !.doc_id = doc_id,
                            !.status = r.status, !.exc = r.exc, !.message = r.detail,
                            !.listed = r.listed, !.analyzing = r.analyzing]
    /\ UNCHANGED <<now, users, nextId, issued, redeemed, minted, pend, csrf, regs>>

UploadBidDocument(current_user) ==
    /\ nextDoc <= MaxDocs
    /\ nextDoc' = nextDoc + 1
    /\ BidCall("upload_bid_document", current_user, nextDoc,
               upload_bid_document(docs, nextDoc, current_user))

GetBidDocument(current_user, doc_id) ==
    /\ BidCall("get_bid_document", current_user, doc_id,
               get_bid_document(docs, current_user, doc_id))
    /\ UNCHANGED nextDoc

ListBidDocuments(current_user) ==
    /\ BidCall("list_bid_documents", current_user, 0, list_bid_documents(docs, current_user))
    /\ UNCHANGED nextDoc

DeleteBidDocument(current_user, doc_id) ==
    /\ BidCall("delete_bid_document", current_user, doc_id,
               delete_bid_document(docs, current_user, doc_id))
    /\ UNCHANGED nextDoc

AnalyzeBidDocument(current_user, doc_id, content, OPENAI_API_KEY, run) ==
    /\ BidCall("analyze_bid_document", current_user, doc_id,
               analyze_bid_document(docs, current_user, doc_id, content, OPENAI_API_KEY, run))
    /\ UNCHANGED nextDoc

\* a request to a route of /api/v1/bid-documents by a user with a valid access
\* token: the dependencies are solved first and the endpoint function runs
\* only if all were; Depends(CurrentUser) never is
BidRoutes == {"POST /upload", "GET /{doc_id}", "GET", "DELETE /{doc_id}",
              "POST /{doc_id}/analyze"}
BidRequest(route, caller, doc_id, args, kwargs) ==
    LET r == Depends_CurrentUser(args, kwargs)
    IN  /\ last' = [Idle EXCEPT !.op = "bid-documents", !.route = route, !.caller = caller,
                                !.doc_id = doc_id, !.args = args, !.kwargs = kwargs,
                                !.status = r.status, !.exc = r.exc, !.message = r.detail]
        /\ UNCHANGED <<now, users, nextId, issued, redeemed, minted, pend, csrf, regs,
                       docs, nextDoc>>

\* Bid documents: the endpoint functions as they act once their dependencies
\* are resolved, and requests to the routes as they are declared.
NextBid ==
    \/ \E u \in CallerIds : UploadBidDocument(u)
    \/ \E u \in CallerIds, d \in DocIds : GetBidDocument(u, d)
    \/ \E u \in CallerIds : ListBidDocuments(u)
    \/ \E u \in CallerIds, d \in DocIds : DeleteBidDocument(u, d)
    \/ \E u \in CallerIds, d \in DocIds, c \in BOOLEAN, k \in BOOLEAN, run \in AgentRuns :
           AnalyzeBidDocument(u, d, c, k, run)
    \/ \E route \in BidRoutes, u \in CallerIds, d \in DocIds,
          a \in {NoneStr, Some(<<97>>)}, k \in {NoneStr, Some(<<97>>)} :
           BidRequest(route, u, d, a, k)

SpecBid == Init /\ [][NextBid]_vars

\* Login alone: users are registered, deactivated, reactivated and deleted, and
\* anyone submits the login form with a user's password, another password, or
\* one longer than bcrypt reads (OAuth2PasswordRequestForm sets no length).
NextLogin ==
    \/ Tick
    \/ \E e \in Emails, p \in Passwords, s \in Salts : Register(e, p, USER, s)
    \/ \E i \in UserIds, d \in ActiveData : UpdateUser(i, d)
    \/ \E i \in UserIds : DeleteUser(i)
    \/ \E e \in Emails, p \in Passwords \cup {WrongPassword, LongPassword} : Login(e, p)

SpecLogin == Init /\ [][NextLogin]_vars

\* Registration alone: calls of POST /auth/register run concurrently, each in
\* its own database session, and interleave at their awaits.
NextRegister ==
    \/ \E c \in RegCalls, e \in Emails, p \in Passwords, r \in Roles, s \in Salts :
           BeginRegister(c, e, p, r, s)
    \/ \E c \in RegCalls : FinishRegister(c)
    \/ \E i \in UserIds : DeleteUser(i)

SpecRegister == Init /\ [][NextRegister]_vars

\* CSRF middleware alone: a client sends requests with any method to exempt
\* and other paths, with or without a csrf_token cookie and an X-CSRF-Token
\* header; the cookie a response set is kept by the client.
Methods == PROTECTED_METHODS \cup {"GET"}
Paths == {<<"l">>, <<"d", "x">>, <<"u">>, <<"b">>}

\* what a client puts in the cookie or the header: nothing, the empty string,
\* the cookie it holds, "a", or "\u00e9"
ClientValues == {NoneStr, Some(<<>>), csrf.jar, Some(<<97>>), Some(<<233>>)}

CsrfRequest(method, path, cookie, header_token) ==
    LET r == dispatch(method, path, cookie, header_token, generate_token(csrf.n + 1))
        generates == ~is_exempt(path) /\ Not(cookie)
    IN  /\ generates => csrf.n < MaxCsrf
        /\ csrf' = [jar |-> IF r.set_cookie.some THEN r.set_cookie ELSE csrf.jar,
                    n |-> IF generates THEN csrf.n + 1 ELSE csrf.n]
        /\ last' = [Idle EXCEPT !.op = "CSRFMiddleware", !.method = method, !.path = path,
                                !.csrf_cookie = cookie, !.csrf_header = header_token,
                                !.handler = r.handler, !.status = r.status,
                                !.message = r.detail, !.exc = r.exc,
                                !.set_cookie = r.set_cookie]
        /\ UNCHANGED <<now, users, nextId, issued, redeemed, minted, pend, regs, docs, nextDoc>>

NextCsrf ==
    \E m \in Methods, p \in Paths, c \in ClientValues, h \in ClientValues :
        CsrfRequest(m, p, c, h)

SpecCsrf == Init /\ [][NextCsrf]_vars

\* Token codec alone: tokens are created for any subject and expires_delta,
\* time passes, and strings are verified.
Mint(tok, subject, expires_delta, type) ==
    /\ Cardinality(minted) < MaxMinted
    /\ minted' = minted \cup {[tok |-> tok, iss |-> now, subject |-> subject,
                               delta |-> expires_delta, type |-> type]}
    /\ UNCHANGED <<now, users, nextId, issued, redeemed, pend, csrf, regs, docs, nextDoc>>

CreateAccess(subject, expires_delta) ==
    LET tok == create_access_token(subject, expires_delta, now)
    IN  /\ Mint(tok, subject, expires_delta, "access")
        /\ last' = [Idle EXCEPT !.op = "create_access_token", !.delta = expires_delta,
                                !.access = tok, !.user = subject]

CreateRefresh(subject, expires_delta) ==
    LET tok == create_refresh_token(subject, expires_delta, now)
    IN  /\ Mint(tok, subject, expires_delta, "refresh")
        /\ last' = [Idle EXCEPT !.op = "create_refresh_token", !.delta = expires_delta,
                                !.refresh = tok, !.user = subject]

Verify(token) ==
    LET v == verify_token(token, now)
    IN  /\ last' = [Idle EXCEPT !.op = "verify_token", !.token = token, !.res = v.res,
                                !.exc = v.exc,
                                !.payload = [exp |-> v.exp, sub |-> v.sub, type |-> v.type]]
        /\ UNCHANGED <<now, users, nextId, issued, redeemed, minted, pend, csrf, regs, docs, nextDoc>>

\* strings handed to verify_token: created tokens, the same with another
\* signature, and strings that are no JWT
Strings ==
    {m.tok : m \in minted} \cup {[m.tok EXCEPT !.sig = "bad"] : m \in minted}
        \cup ForgedTokens \cup {Garbage, EmptyString}

NextCodec ==
    \/ Tick
    \/ \E u \in UserIds, d \in Deltas : CreateAccess(u, d)
    \/ \E u \in UserIds, d \in Deltas : CreateRefresh(u, d)
    \/ \E tok \in Strings : Verify(tok)

SpecCodec == Init /\ [][NextCodec]_vars

\* Password hashing alone: passwords are hashed, and passwords are verified
\* against the digest just made or against a string that is no digest.
PwChars == {97, 233}
HashPasswords == UNION {[1..n -> PwChars] : n \in 0..(BcryptMax + 1)}

\* strings in the hashed_password column that bcrypt did not make: the empty
\* string, a string without the "$2b$" prefix, one with a salt that does not
\* parse, and a digest cut off after its salt
NotDigests ==
    {EmptyDigest,
     [prefix |-> "plain", salt |-> "", key |-> <<>>],
     [prefix |-> "$2b$", salt |-> "?", key |-> <<>>],
     [prefix |-> "$2b$", salt |-> "s1", key |-> <<>>]}

HashPassword(password, salt) ==
    /\ \E h \in get_password_hash(password, salt) :
          last' = [Idle EXCEPT !.op = "get_password_hash", !.password = password,
                               !.exc = h.exc, !.digest = h.value]
    /\ UNCHANGED <<now, users, nextId, issued, redeemed, minted, pend, csrf, regs, docs, nextDoc>>

\* verify_password(plain_password, the digest get_password_hash just returned)
VerifyHashed(plain_password) ==
    /\ last.op = "get_password_hash" /\ last.exc = "none"
    /\ \E v \in verify_password(plain_password, last.digest) :
          last' = [Idle EXCEPT !.op = "verify_password", !.password = plain_password,
                               !.digest = last.digest, !.plain = last.password,
                               !.round = TRUE, !.res = v]
    /\ UNCHANGED <<now, users, nextId, issued, redeemed, minted, pend, csrf, regs, docs, nextDoc>>

VerifyStored(plain_password, hashed_password) ==
    /\ \E v \in verify_password(plain_password, hashed_password) :
          last' = [Idle EXCEPT !.op = "verify_password", !.password = plain_password,
                               !.digest = hashed_password, !.res = v]
    /\ UNCHANGED <<now, users, nextId, issued, redeemed, minted, pend, csrf, regs, docs, nextDoc>>

NextHash ==
    \/ \E p \in HashPasswords, s \in Salts : HashPassword(p, s)
    \/ \E p \in HashPasswords : VerifyHashed(p)
    \/ \E p \in HashPasswords, d \in NotDigests : VerifyStored(p, d)

SpecHash == Init /\ [][NextHash]_vars

\* ------------------------------------------------------------ properties
\* a token signed with the server secret whose expiry lies after time t
IsLive(tok, t) == tok.fmt = "jwt" /\ tok.sig = "good" /\ tok.exp * TicksPerSec > t

\* the user a token names exists / exists and is active
SubjectExists(tok) == UUID(tok.sub) \in UserIds /\ users[UUID(tok.sub)].present
SubjectActive(tok) == SubjectExists(tok) /\ users[UUID(tok.sub)].is_active

\* the token a WebSocket handshake is decided on
WsToken(l) == IF l.token.fmt \in {"absent", "empty"} THEN l.cookie ELSE l.token

\* it resolves to an identity on a route that takes access tokens
Resolves(tok) == IsLive(tok, now) /\ tok.type = "access" /\ SubjectActive(tok)

\* C1: token kind is enforced at every consumer. A live refresh token presented
\* to get_current_user or get_current_user_ws is rejected (401, close 4001), a
\* live access token presented to POST /auth/refresh is rejected with 401, the
\* response carries no tokens and no token is issued; whatever is accepted for
\* resource access is an access token and whatever is refreshed is a refresh token.
C1_TokenKindEnforced ==
    [][ /\ (last'.op = "get_current_user" /\ IsLive(last'.token, now')
               /\ last'.token.type = "refresh")
            => (last'.status = 401 /\ last'.user = 0)
        /\ (last'.op = "get_current_user_ws" /\ IsLive(WsToken(last'), now')
               /\ WsToken(last').type = "refresh")
            => (last'.exc = "AuthenticationError" /\ last'.close = 4001 /\ last'.user = 0)
        /\ (last'.op = "refresh" /\ IsLive(last'.token, now')
               /\ last'.token.type = "access")
            => (last'.status = 401 /\ last'.access = NoToken
                /\ last'.refresh = NoToken /\ issued' = issued)
        /\ (last'.op = "get_current_user" /\ last'.status = 200)
            => last'.token.type = "access"
        /\ (last'.op = "get_current_user_ws" /\ last'.exc = "none")
            => WsToken(last').type = "access"
        /\ (last'.op = "refresh" /\ last'.status = 200)
            => last'.token.type = "refresh"
      ]_vars

\* a live access token was presented to POST /auth/refresh and refused
C1_Witness ==
    /\ last.op = "refresh" /\ IsLive(last.token, now) /\ last.token.type = "access"
    /\ last.status = 401

\* C2: on a route guarded by get_current_user each of the five resolution
\* failures (no bearer token, token failing verification, refresh token, unknown
\* subject, inactive user) is answered 401 with WWW-Authenticate: Bearer.
C2_FiveFailures401 ==
    (/\ last.op = "get_current_user"
     /\ \/ last.token.fmt = "absent"
        \/ ~IsLive(last.token, now)
        \/ last.token.type = "refresh"
        \/ ~SubjectExists(last.token)
        \/ ~SubjectActive(last.token))
    => (last.status = 401 /\ last.www = "Bearer")

\* C3: POST /auth/refresh answers 401 without tokens when the token is malformed
\* or expired, of kind access, names no existing user or names an inactive user,
\* and answers 200 with a new pair in every other case.
C3_RefreshOutcome ==
    last.op = "refresh" =>
        IF \/ ~IsLive(last.token, now)
           \/ last.token.type = "access"
           \/ ~SubjectExists(last.token)
           \/ ~SubjectActive(last.token)
        THEN last.status = 401 /\ last.access = NoToken /\ last.refresh = NoToken
        ELSE /\ last.status = 200
             /\ last.access.type = "access" /\ last.refresh.type = "refresh"

\* C4: on a route guarded by RoleChecker(ADMIN) a resolved USER-role identity is
\* answered 403 without a WWW-Authenticate header, a resolved ADMIN-role identity
\* reaches the handler, and no resolved identity is answered 401 for its role.
C4_RoleViolationIs403 ==
    (last.op = "RoleChecker" /\ Resolves(last.token)) =>
        /\ last.status # 401
        /\ (last.required = ADMIN /\ users[UUID(last.token.sub)].role = USER)
              => (last.status = 403 /\ last.www = "none")
        /\ (last.required = ADMIN /\ users[UUID(last.token.sub)].role = ADMIN)
              => (last.status = 200 /\ last.user = UUID(last.token.sub))

\* a USER-role identity was refused on a route requiring ADMIN
C4_Witness ==
    /\ last.op = "RoleChecker" /\ Resolves(last.token) /\ last.required = ADMIN
    /\ users[UUID(last.token.sub)].role = USER
    /\ last.status = 403

\* C5: a resolved identity passes the role check exactly when its role is ADMIN
\* or equals the required role: ADMIN satisfies both requirements, USER only USER.
C5_HasRole ==
    (last.op = "RoleChecker" /\ Resolves(last.token)) =>
        ((last.status = 200) <=>
            (\/ users[UUID(last.token.sub)].role = ADMIN
             \/ users[UUID(last.token.sub)].role = last.required))

\* an ADMIN identity passed a USER requirement
C5_Witness ==
    /\ last.op = "RoleChecker" /\ Resolves(last.token) /\ last.required = USER
    /\ users[UUID(last.token.sub)].role = ADMIN
    /\ last.status = 200

\* C9: refresh tokens are not revoked by use. Once some refresh has succeeded,
\* every refresh token that is still unexpired and whose user exists and is
\* active is accepted by POST /auth/refresh, the already used ones included.
C9_NoRevocationByUse ==
    (/\ last.op = "refresh" /\ last.prior
     /\ IsLive(last.token, now) /\ last.token.type = "refresh"
     /\ SubjectActive(last.token))
    => (last.status = 200 /\ last.access # NoToken /\ last.refresh # NoToken)

\* a refresh token that had been used before, and that a later one has replaced,
\* was accepted again
C9_Witness ==
    /\ last.op = "refresh" /\ last.reused /\ last.status = 200
    /\ \E r \in issued : /\ r.type = "refresh" /\ r.sub = last.token.sub
                         /\ r.exp > last.token.exp

\* C10: every successful refresh returns a brand-new pair: the returned refresh
\* token differs from the presented one and the returned access token differs
\* from every access token issued earlier.
C10_BrandNewPair ==
    [][ (last'.op = "refresh" /\ last'.status = 200)
            => (last'.refresh # last'.token /\ last'.access \notin issued) ]_vars

\* the configured lifetime of a token type
DefaultTTL(type) == IF type = "access" THEN AccessTTL ELSE RefreshTTL

\* C6: for a token created with a supplied ttl, verify_token returns a payload
\* of the token's type with sub = str(subject) at every time before issuance
\* plus ttl, and None at every time after it. "Before" is read at the one-second
\* resolution of the exp claim: before the whole second that issuance plus ttl
\* falls in.
C6_VerifyUntilExpiry ==
    \A m \in minted :
        (last.op = "verify_token" /\ last.token = m.tok /\ m.delta.given) =>
            /\ now < timegm(m.iss + m.delta.ticks) * TicksPerSec
                 => /\ last.res = "payload"
                    /\ last.payload.type = m.type
                    /\ last.payload.sub = Str(m.subject)
            /\ now > m.iss + m.delta.ticks => last.res = "None"

\* C7: the expiry of a created token is issuance time plus the supplied ttl for
\* every supplied ttl (positive, zero or negative), and issuance time plus the
\* configured lifetime only when no ttl is supplied; exp is in whole seconds.
C7_ExpiryIsIssuancePlusTtl ==
    \A m \in minted :
        m.tok.exp = timegm(m.iss + (IF m.delta.given THEN m.delta.ticks
                                    ELSE DefaultTTL(m.type)))

\* C8: verify_token never raises: it returns a payload, the token's own claims,
\* exactly for a string signed with the server secret and not yet expired, and
\* None for every other string.
C8_VerifyNeverRaises ==
    last.op = "verify_token" =>
        /\ last.res \in {"payload", "None"}
        /\ last.exc = "none"
        /\ last.res = "payload" <=> IsLive(last.token, now)
        /\ last.res = "payload" =>
              /\ last.payload.sub = last.token.sub
              /\ last.payload.type = last.token.type
              /\ last.payload.exp = last.token.exp

\* a created token whose signature was replaced was verified
C8_Witness ==
    /\ last.op = "verify_token" /\ last.token.sig = "bad" /\ last.res = "None"
    /\ \E m \in minted : last.token = [m.tok EXCEPT !.sig = "bad"]

\* ------------------------------------------------------------ login and register
\* the password verifies against the stored hash of the user with this email
PasswordVerifies(email, password) ==
    /\ repo_get_by_email(email) # 0
    /\ verify_password(password, users[repo_get_by_email(email)].hashed_password) = {"True"}

First(events, call) ==
    IF \E i \in 1..Len(events) : events[i] = call
    THEN CHOOSE i \in 1..Len(events) :
            events[i] = call /\ \A j \in 1..(i - 1) : events[j] # call
    ELSE 0

\* C13: whenever get_current_user_ws fails to resolve an identity (token
\* missing, failing verification, of the wrong kind, naming an unknown user or
\* an inactive one) the socket is closed with code 4001 and a reason, and the
\* close comes before the exception is raised.
C13_WsFailureCloses4001 ==
    (last.op = "get_current_user_ws" /\ last.exc # "none") =>
        /\ last.close = 4001 /\ last.reason # ""
        /\ First(last.events, "close") # 0
        /\ First(last.events, "close") < First(last.events, "raise")

\* C14: a handshake with no token in the query string and no cookie is closed
\* with code 4001 before the token is verified or a user is looked up, and
\* nothing else happens on the socket.
C14_WsNoTokenClosedFirst ==
    (last.op = "get_current_user_ws" /\ last.token.fmt \in {"absent", "empty"}
                                    /\ last.cookie.fmt \in {"absent", "empty"}) =>
        /\ last.close = 4001
        /\ last.events = <<"close", "raise">>
        /\ last.user = 0

\* an empty query parameter without a cookie was closed with 4001
C14_Witness ==
    /\ last.op = "get_current_user_ws" /\ last.token = EmptyString
    /\ last.cookie = NoToken /\ last.close = 4001

\* C15: get_current_user_ws decides on the query token when one is supplied
\* and on the cookie only when the query token is absent or empty: with a
\* query token the outcome is the one of that token alone, whatever the
\* cookie, so an invalid query token is refused beside a valid cookie.
C15_WsQueryTokenFirst ==
    last.op = "get_current_user_ws" =>
        LET decisive == IF last.token.fmt \in {"absent", "empty"}
                        THEN last.cookie ELSE last.token
        IN  /\ (last.exc = "none") <=> Resolves(decisive)
            /\ last.exc = "none" => last.user = UUID(decisive.sub)
            /\ last.token.fmt \notin {"absent", "empty"} =>
                   \A c \in Presentable \cup {NoToken, EmptyString} :
                      /\ get_current_user_ws(last.token, c, now).exc = last.exc
                      /\ get_current_user_ws(last.token, c, now).reason = last.reason

\* a query token that is no JWT was refused although the cookie resolves
C15_Witness ==
    /\ last.op = "get_current_user_ws" /\ last.token = Garbage
    /\ Resolves(last.cookie) /\ last.close = 4001

\* ------------------------------------------------------------ what a failure shows
\* the answers to a request whose token is no JWT, in the current state: the
\* failure every other failure is compared with
GenericHttp == Respond(CurrentUser(Garbage, now))
GenericWs == get_current_user_ws(Garbage, NoToken, now)

\* C16: what the client sees of a failed authentication does not tell which
\* failure it was (token missing, invalid or expired, wrong kind, unknown
\* user, inactive user): every failed HTTP request gets the same status,
\* headers and body message, and every failed handshake the same close code
\* and reason.
C16_FailureReasonHidden ==
    /\ (last.op = "get_current_user" /\ last.exc # "none") =>
            /\ last.status = GenericHttp.status
            /\ last.www = GenericHttp.www
            /\ last.code = GenericHttp.code
            /\ last.message = GenericHttp.message
    /\ (last.op = "get_current_user_ws" /\ last.exc # "none") =>
            /\ last.close = GenericWs.close
            /\ last.reason = GenericWs.reason

\* ------------------------------------------------------------ requests among updates
\* C17: the decision on a request depends on its token, the time and the user
\* row at the moment of the lookup, and on nothing kept from earlier requests:
\* however updates and requests interleave, a request is authorized exactly
\* when its token is a valid unexpired access token at verification and the
\* user it names exists and is active when the row is read. A token issued
\* before a deactivation is refused after it and accepted again after the
\* reactivation.
C17_DecidedAtLookup ==
    last.op = "get_current_user" =>
        IF last.awaited
        THEN /\ last.token.fmt = "jwt" /\ last.token.sig = "good"
             /\ last.token.type = "access"
             /\ (last.exc = "none") <=> SubjectActive(last.token)
             /\ last.exc = "none" => last.user = UUID(last.token.sub)
        ELSE /\ last.exc # "none"
             /\ ~(IsLive(last.token, now) /\ last.token.type = "access")

\* a token issued before the deactivation was verified while its user was
\* inactive and accepted because the user was active again at the lookup
C17_Witness ==
    /\ last.op = "get_current_user" /\ last.awaited
    /\ last.token \in issued /\ ~last.seen /\ last.exc = "none"

\* ------------------------------------------------------------ password hashing
\* C18: verify_password answers False, and raises nothing, for every
\* non-empty digest that is not a well-formed hash; only the empty digest is
\* an error.
C18_MalformedDigestIsFalse ==
    (last.op = "verify_password" /\ ~last.round) =>
        IF last.digest = EmptyDigest THEN last.res = "ValueError"
        ELSE last.res = "False"

\* C19: for every non-empty password p, get_password_hash(p) is a digest
\* (never p itself) that p verifies against, and no other password p2
\* verifies against it.
C19_HashRoundTrip ==
    /\ (last.op = "get_password_hash" /\ last.password # <<>>) =>
            last.exc = "none" /\ WellFormed(last.digest)
    /\ (last.op = "verify_password" /\ last.round /\ last.plain # <<>>) =>
            IF last.password = last.plain THEN last.res = "True"
            ELSE last.res = "False"

\* ------------------------------------------------------------ own profile
\* the request body without its role field
WithoutRole(user_in) == [user_in EXCEPT !.role = None, !.set = @ \ {"role"}]

\* C20: PATCH /users/me from a caller who is no administrator ignores a role
\* field in the body: the caller's role stays as it was, and the request is
\* answered as, and changes what, the same request without the role field
\* would (email, full_name, password and is_active are applied alike).
C20_RoleFieldIgnored ==
    [][(/\ last'.op = "update_current_user"
        /\ "role" \in last'.body.set
        /\ CurrentUser(last'.token, now).exc = "none"
        /\ ~has_role(users[CurrentUser(last'.token, now).user].role, ADMIN)) =>
            LET current_user == CurrentUser(last'.token, now).user
            IN  /\ users'[current_user].role = users[current_user].role
                /\ \E s \in Salts :
                     \E o \in update_current_user(current_user, WithoutRole(last'.body), s) :
                        /\ last'.status = Respond(o.r).status
                        /\ users' = o.users]_vars

\* ------------------------------------------------------------ order of the checks
\* the first check a token fails where tokens of this kind are expected
FirstFailure(tok, kind) ==
    IF tok.fmt \in {"absent", "empty"} THEN "missing"
    ELSE IF ~IsLive(tok, now) THEN "invalid"
    ELSE IF tok.type # kind THEN "kind"
    ELSE IF ~SubjectExists(tok) THEN "unknown"
    ELSE IF ~SubjectActive(tok) THEN "inactive"
    ELSE "none"

\* the failure an answer reports
Reported(l) ==
    IF l.exc = "none" THEN "none"
    ELSE IF l.message \in {"Not authenticated", "Missing authentication token"} THEN "missing"
    ELSE IF l.message \in {"Invalid or expired token", "Invalid or expired refresh token"}
    THEN "invalid"
    ELSE IF l.message = "Invalid token type" THEN "kind"
    ELSE IF l.exc = "NotFoundError" THEN "unknown"
    ELSE IF l.message = "User account is disabled" THEN "inactive"
    ELSE "other"

\* C21: get_current_user, get_current_user_ws and POST /auth/refresh check in
\* the order token present, token verifies, kind matches, user found, user
\* active, and report the first check that fails: an expired token of the
\* wrong kind is reported as invalid, and no user is looked up for a token
\* that is missing, invalid or of the wrong kind.
C21_FirstFailureReported ==
    (last.op \in {"get_current_user", "get_current_user_ws", "refresh"} /\ ~last.awaited) =>
        LET first == FirstFailure(IF last.op = "get_current_user_ws"
                                  THEN WsToken(last) ELSE last.token,
                                  IF last.op = "refresh" THEN "refresh" ELSE "access")
        IN  /\ Reported(last) = first
            /\ first = "missing" => First(last.events, "verify_token") = 0
            /\ first \in {"missing", "invalid", "kind"} => First(last.events, "get_by_id") = 0
            /\ First(last.events, "get_by_id") # 0 =>
                   /\ First(last.events, "verify_token") # 0
                   /\ First(last.events, "verify_token") < First(last.events, "get_by_id")

\* an expired refresh token was presented where access tokens are expected
\* and refused as invalid
C21_Witness ==
    /\ last.op \in {"get_current_user", "get_current_user_ws"}
    /\ last.token \in issued /\ last.token.type = "refresh"
    /\ ~IsLive(last.token, now)
    /\ last.message = "Invalid or expired token"

\* ------------------------------------------------------------ steps of a request
\* the steps of a resolution, in their order: after oauth2_scheme the token is
\* extracted, after verify_token (and the kind test) it is verified, after
\* get_by_id (and the is_active test) the user is resolved, after has_role the
\* role is checked
Stages == <<"oauth2_scheme", "verify_token", "get_by_id", "has_role">>

\* C22: a request's resolution goes through its steps in order (token
\* extracted, token verified, user resolved, and for a role-guarded route
\* role checked) and ends exactly once, authorized or rejected: a rejection
\* is the last thing that happens, no step runs twice, the user is looked up
\* at most once, and the role is checked only for a user resolved as active.
C22_StepsInOrderOnce ==
    (last.op \in {"get_current_user", "RoleChecker"} /\ ~last.awaited) =>
        LET n == Len(last.events)
        IN  /\ n >= 2 /\ n <= Len(Stages) + 1
            /\ last.events[n] \in {"return", "raise"}
            /\ \A i \in 1..(n - 1) : last.events[i] = Stages[i]
            /\ (last.events[n] = "return") <=> (last.exc = "none")
            /\ last.exc = "none" =>
                   n - 1 = (IF last.op = "RoleChecker" THEN 4 ELSE 3)
            /\ First(last.events, "has_role") # 0 =>
                   /\ last.op = "RoleChecker"
                   /\ SubjectActive(last.token)

\* a role-guarded route refused a deactivated user before any role check
C22_Witness ==
    /\ last.op = "RoleChecker" /\ last.token \in issued
    /\ last.message = "User account is disabled"
    /\ last.events = <<"oauth2_scheme", "verify_token", "get_by_id", "raise">>

\* ------------------------------------------------------------ what the core writes
AuthOps == {"login", "refresh", "get_current_user", "get_current_user_ws", "RoleChecker"}

\* C23: login, refresh, get_current_user, get_current_user_ws and RoleChecker
\* only read the users: whether the call succeeds or fails, no user is
\* created or deleted and no user's id, email, password hash, active flag or
\* role changes.
C23_CoreReadsOnly ==
    [][last'.op \in AuthOps => (users' = users /\ nextId' = nextId)]_vars

\* a login with the email of an existing, active user was refused
C23_Witness ==
    /\ last.op = "login" /\ last.status = 401
    /\ repo_get_by_email(last.email) # 0
    /\ users[repo_get_by_email(last.email)].is_active

\* ------------------------------------------------------------ CSRF
\* the X-CSRF-Token header is present and equal to the csrf_token cookie
HeaderMatchesCookie(l) ==
    l.csrf_header.some /\ l.csrf_cookie.some /\ l.csrf_header.str = l.csrf_cookie.str

Admins(rows) == {i \in UserIds : rows[i].present /\ rows[i].role = ADMIN}

\* C25: requests made without an ADMIN identity neither create an ADMIN nor
\* raise a role: after POST /auth/register and after PATCH /users/me a user
\* holds ADMIN only if it held ADMIN before, so every user that register
\* creates has role USER.
C25_NoAdminFromPublicRoutes ==
    [][last'.op \in {"register", "update_current_user"} => Admins(users') \subseteq Admins(users)]_vars

\* ------------------------------------------------------------ concurrent register
\* C26: when calls of register with the same email run concurrently, at most
\* one user with that email exists, and every call that does not create the
\* user because the email is taken fails with AlreadyExistsError (409), not
\* with another error.
C26_ConcurrentRegisterConflicts ==
    /\ \A i, j \in UserIds :
           (users[i].present /\ users[j].present /\ users[i].email = users[j].email) => i = j
    /\ (last.op = "register" /\ last.status # 201 /\ repo_get_by_email(last.email) # 0) =>
           (last.exc = "AlreadyExistsError" /\ last.status = 409)

\* ------------------------------------------------------------ subjects of issued tokens
\* C27: the two tokens that login or refresh returns carry as subject the id
\* of a user that exists and is active when the handler reads it; for login
\* it is the user with the submitted email, and for refresh it is the subject
\* of the presented token.
C27_IssuedSubjectIsActiveUser ==
    (last.op \in {"login", "refresh"} /\ last.exc = "none") =>
        /\ last.access.sub = last.refresh.sub
        /\ \E i \in UserIds :
               /\ last.access.sub = Str(i)
               /\ users[i].present
               /\ users[i].is_active
               /\ (last.op = "login" => users[i].email = last.email)
        /\ (last.op = "refresh" => last.access.sub = last.token.sub)

\* a refresh token is redeemed for a new pair
C27_Witness ==
    /\ last.op = "refresh" /\ last.exc = "none"
    /\ last.access.type = "access" /\ last.refresh.type = "refresh"
    /\ last.access.sub = last.token.sub

\* ------------------------------------------------------------ wrong passwords
\* C28: a login with a wrong password is answered the same way whether no user
\* has the email, the user is active or the user is inactive: 401
\* AuthenticationError "Invalid email or password"; "User account is
\* disabled" is said only to a caller whose password verifies.
C28_WrongPasswordSameAnswer ==
    last.op = "login" =>
        /\ ~PasswordVerifies(last.email, last.password) =>
               (last.exc = "AuthenticationError" /\ last.status = 401
                   /\ last.message = "Invalid email or password")
        /\ last.message = "User account is disabled" =>
               PasswordVerifies(last.email, last.password)

\* ------------------------------------------------------------ bid documents
\* the caller owns the document
Owns(rows, caller, doc_id) ==
    doc_id \in DocIds /\ rows[doc_id].present /\ rows[doc_id].user_id = caller

\* a request to the get, delete or analyze route, or a call of its function
ByDocId(l) ==
    \/ l.op = "bid-documents"
          /\ l.route \in {"GET /{doc_id}", "DELETE /{doc_id}", "POST /{doc_id}/analyze"}
    \/ l.op \in {"get_bid_document", "delete_bid_document", "analyze_bid_document"}

\* C29: bid documents are isolated per owner: get, delete and analyze for a
\* document the caller does not own are answered 404 and leave every record,
\* its status and its stored file as they were, and list returns only
\* documents of the caller.
C29_BidDocumentsPerOwner ==
    [][/\ (ByDocId(last') /\ ~Owns(docs, last'.caller, last'.doc_id)) =>
              (last'.status = 404 /\ docs' = docs)
       /\ \A d \in last'.listed : Owns(docs, last'.caller, d)]_vars

\* C30: analysis_status is always pending, analyzing, completed or failed;
\* when a call of analyze that set analyzing has ended, by return, by an error
\* of the agent or of the JSON parsing, or by cancellation, the status is
\* completed with analysis_result set, or failed, and not analyzing; a
\* completed document has its analysis_result set.
C30_AnalyzingIsTransient ==
    /\ \A d \in DocIds : docs[d].present =>
           /\ docs[d].analysis_status \in {"pending", "analyzing", "completed", "failed"}
           /\ (docs[d].analysis_status = "completed" => docs[d].analysis_result)
    /\ (last.op = "analyze_bid_document" /\ last.analyzing) =>
           \/ docs[last.doc_id].analysis_status = "failed"
           \/ (docs[last.doc_id].analysis_status = "completed"
                  /\ docs[last.doc_id].analysis_result)

====
